---- MODULE Spec2Model ----
(***************************************************************************)
(* State-machine model of src/src/main.rs: the snake game loop.  A point   *)
(* is a pair <<x, y>> of u16 values (point.0 is p[1], point.1 is p[2]).    *)
(* One action per step of main: the initial food draw, the terminal        *)
(* setup, and per loop iteration the draw, the tick, the flush and the     *)
(* input step, then the terminal clear after the loop.                     *)
(***************************************************************************)
EXTENDS Integers, Sequences, FiniteSets, TLC

\* ---- bounds of the model ----
\* terminal::size() results explored: MinCols..MaxCols x MinRows..MaxRows.
MinCols == 0
MaxCols == 8
MinRows == 0
MaxRows == 10
\* rng.gen_range draws explored from one range: its first MaxDraws values
\* and its last one (only the range of a wrapped `to - 1` is longer)
MaxDraws == 4
\* terminal sizes of the area construction on its own: 0..SmallSize, the
\* sizes around the u16 overflow of 3 * size, and the largest u16
SmallSize == 9

\* ---- program constants ----
\* largest u16 value (the coordinates are u16)
U16Max == 65535

VARIABLES cols, rows, area, snake, food, direction, pc, status,
          rawMode, cursorHidden,
          run   \* history: the head and length of the Body when the current
                \* stretch of ticks (same direction, no food eaten) began,
                \* and the number of ticks of the stretch (n); the direction
                \* the last completed tick used (heading, "NONE" before the
                \* first); the number of ticks completed since the Direction
                \* last changed (straight)

vars == <<cols, rows, area, snake, food, direction, pc, status,
          rawMode, cursorHidden, run>>

Directions == {"UP", "DOWN", "LEFT", "RIGHT"}

\* ---- u16 arithmetic ----
saturating_add(a, b) == IF a + b > U16Max THEN U16Max ELSE a + b

saturating_sub(a, b) == IF a - b < 0 THEN 0 ELSE a - b

\* ---- LookupPointQueue ----
LookupPointQueue_new(points) ==
    [vec |-> points, hash |-> {points[i] : i \in DOMAIN points}]

lookup_headOnly(lq, point) == Len(lq.vec) > 0 /\ point = lq.vec[1]

lookup(lq, point) == point \in lq.hash

\* head() of a non-empty queue; callers use head_or for the Option
head(lq) == lq.vec[1]

head_or(lq, default) == IF Len(lq.vec) = 0 THEN default ELSE head(lq)

push(lq, point) ==
    [vec |-> <<point>> \o lq.vec, hash |-> lq.hash \cup {point}]

pop_keepHash(lq) ==
    IF Len(lq.vec) = 0
    THEN lq
    ELSE [vec  |-> SubSeq(lq.vec, 1, Len(lq.vec) - 1),
          hash |-> lq.hash]

pop(lq) ==
    IF Len(lq.vec) = 0
    THEN lq
    ELSE [vec  |-> SubSeq(lq.vec, 1, Len(lq.vec) - 1),
          hash |-> lq.hash \ {lq.vec[Len(lq.vec)]}]

\* ---- CollisionDetector implementations ----
SnakeState_has_collision_never(s, point) == FALSE

SnakeState_has_collision(s, point) == lookup(s, point)

GameArea_has_collision_strict(a, point) ==
    \/ point[1] < a.from[1]
    \/ point[1] > a.to[1]
    \/ point[2] < a.from[2]
    \/ point[2] > a.to[2]

GameArea_has_collision(a, point) ==
    \/ point[1] <= a.from[1]
    \/ point[1] >= a.to[1]
    \/ point[2] <= a.from[2]
    \/ point[2] >= a.to[2]

FoodState_has_collision(f, point) == lookup(f, point)

\* ---- get_next_point ----
get_next_point_skip(point, d) ==
    CASE d = "RIGHT" -> <<saturating_add(point[1], 2), point[2]>>
      [] d = "LEFT"  -> <<saturating_sub(point[1], 1), point[2]>>
      [] d = "DOWN"  -> <<point[1], saturating_add(point[2], 1)>>
      [] d = "UP"    -> <<point[1], saturating_sub(point[2], 1)>>

get_next_point(point, d) ==
    CASE d = "RIGHT" -> <<saturating_add(point[1], 1), point[2]>>
      [] d = "LEFT"  -> <<saturating_sub(point[1], 1), point[2]>>
      [] d = "DOWN"  -> <<point[1], saturating_add(point[2], 1)>>
      [] d = "UP"    -> <<point[1], saturating_sub(point[2], 1)>>

\* ---- startup values of main ----
\* 3 * cols in u16: a build with overflow checks panics when the product
\* exceeds U16Max, a build without them wraps
MulOverflows(k, c) == k * c > U16Max

wrapping_mul(k, c) == (k * c) % (U16Max + 1)

\* to - 1 in u16: a build with overflow checks panics below zero, a build
\* without them wraps
SubOverflows(a, b) == a < b

wrapping_sub(a, b) == (a - b + U16Max + 1) % (U16Max + 1)

GameArea_new(c, r) ==
    [from |-> <<c \div 4, r \div 4>>,
     to   |-> <<wrapping_mul(3, c) \div 4, wrapping_mul(3, r) \div 4>>]

SeedSnake(a) == LookupPointQueue_new(<< <<a.from[1] + 1, a.from[2] + 1>> >>)

\* the half-open ranges handed to rng.gen_range for a food cell:
\* (from.0 + 1)..(to.0 - 1) and (from.1 + 1)..(to.1 - 1), upper end excluded
FoodRangeX(a) == (a.from[1] + 1)..(wrapping_sub(a.to[1], 1) - 1)

FoodRangeY(a) == (a.from[2] + 1)..(wrapping_sub(a.to[2], 1) - 1)

\* the draws of rng.gen_range over the range lo..hi (ends included) that are
\* explored
gen_range(lo, hi) ==
    (lo..(IF hi < lo + MaxDraws THEN hi ELSE lo + MaxDraws - 1))
      \cup (IF lo <= hi THEN {hi} ELSE {})

FoodCells(a) ==
    gen_range(a.from[1] + 1, wrapping_sub(a.to[1], 1) - 1)
      \X gen_range(a.from[2] + 1, wrapping_sub(a.to[2], 1) - 1)

NoQueue == LookupPointQueue_new(<<>>)

Init ==
    /\ cols \in MinCols..MaxCols
    /\ rows \in MinRows..MaxRows
    /\ area = GameArea_new(cols, rows)
    /\ snake = SeedSnake(area)
    /\ food = NoQueue
    /\ direction = "DOWN"
    /\ pc = "spawn"
    /\ status = "Running"
    /\ rawMode = FALSE
    /\ cursorHidden = FALSE
    /\ run = [head |-> head(snake), len |-> 1, n |-> 0,
              heading |-> "NONE", straight |-> 0]

\* lines 169-176: the initial food cell; gen_range panics on an empty range,
\* and `to - 1` panics below zero in a build with overflow checks
InitialFood ==
    /\ pc = "spawn"
    /\ FoodRangeX(area) # {} /\ FoodRangeY(area) # {}
    /\ \E p \in FoodCells(area) : food' = LookupPointQueue_new(<<p>>)
    /\ direction' = "DOWN"
    /\ pc' = "setup"
    /\ UNCHANGED <<cols, rows, area, snake, status, rawMode, cursorHidden, run>>

InitialFoodPanic ==
    /\ pc = "spawn"
    /\ \/ FoodRangeX(area) = {}
       \/ FoodRangeY(area) = {}
       \/ SubOverflows(area.to[1], 1)
       \/ SubOverflows(area.to[2], 1)
    /\ pc' = "panicked"
    /\ UNCHANGED <<cols, rows, area, snake, food, direction, status,
                   rawMode, cursorHidden, run>>

\* lines 118-122 and 178: enable_raw_mode()?, queue!(cursor::Hide)?
Setup ==
    /\ pc = "setup"
    /\ \E outcome \in {"ok", "raw_err", "hide_err"} :
         /\ rawMode' = (outcome # "raw_err")
         /\ cursorHidden' = (outcome = "ok")
         /\ pc' = IF outcome = "ok" THEN "draw" ELSE "err_setup"
    /\ UNCHANGED <<cols, rows, area, snake, food, direction, status, run>>

\* ---- render projection ----
\* lines 52-57: Iterator::next pops the last element of vec (hash untouched)
LookupPointQueue_next_front(lq) ==
    [item |-> lq.vec[1],
     rest |-> [vec |-> SubSeq(lq.vec, 2, Len(lq.vec)), hash |-> lq.hash]]

LookupPointQueue_next(lq) ==
    [item |-> lq.vec[Len(lq.vec)],
     rest |-> [vec |-> SubSeq(lq.vec, 1, Len(lq.vec) - 1), hash |-> lq.hash]]

\* the items into_iter() yields from a clone of the queue, in order
RECURSIVE IterCollect(_)
IterCollect(lq) ==
    IF Len(lq.vec) = 0
    THEN <<>>
    ELSE LET nx == LookupPointQueue_next(lq)
         IN <<nx.item>> \o IterCollect(nx.rest)

\* lines 84-95: the wall cells of the Area, in the order of the two chained
\* ranges x0..(xn + 1) and y0..(yn + 1)
GameArea_into_exclusive(a) ==
    LET x0 == a.from[1]
        y0 == a.from[2]
        xn == a.to[1]
        yn == a.to[2]
        nx == IF xn > x0 THEN xn - x0 ELSE 0
        ny == IF yn > y0 THEN yn - y0 ELSE 0
    IN [k \in 1..(2 * nx) |->
          <<x0 + ((k - 1) \div 2), IF k % 2 = 1 THEN y0 ELSE yn>>]
       \o
       [k \in 1..(2 * ny) |->
          <<IF k % 2 = 1 THEN x0 ELSE xn, y0 + ((k - 1) \div 2)>>]

GameArea_into(a) ==
    LET x0 == a.from[1]
        y0 == a.from[2]
        xn == a.to[1]
        yn == a.to[2]
        nx == IF xn + 1 > x0 THEN xn + 1 - x0 ELSE 0
        ny == IF yn + 1 > y0 THEN yn + 1 - y0 ELSE 0
    IN [k \in 1..(2 * nx) |->
          <<x0 + ((k - 1) \div 2), IF k % 2 = 1 THEN y0 ELSE yn>>]
       \o
       [k \in 1..(2 * ny) |->
          <<IF k % 2 = 1 THEN x0 ELSE xn, y0 + ((k - 1) \div 2)>>]

\* lines 182-195: the Body cells; the entry whose enumerate index is
\* vec.len() - 1 gets the head style
RenderSnake(s) ==
    LET items == IterCollect(s)
    IN [i \in 1..Len(items) |->
          [cell  |-> items[i],
           style |-> IF i - 1 = Len(s.vec) - 1 THEN "head" ELSE "body"]]

\* lines 196-201
RenderArea(a) ==
    LET w == GameArea_into(a)
    IN [i \in 1..Len(w) |-> [cell |-> w[i], style |-> "wall"]]

\* lines 202-209
RenderFood(f) ==
    LET items == IterCollect(f)
    IN [i \in 1..Len(items) |-> [cell |-> items[i], style |-> "food"]]

\* lines 182-209: the chained list of styled cells of one frame
RenderProjection(s, a, f) == RenderSnake(s) \o RenderArea(a) \o RenderFood(f)

\* lines 180, 211-217: one queue! for the clear and one per styled cell
QueueCalls(s, a, f) == 1 + Len(RenderProjection(s, a, f))

\* lines 180-217: queue the clear and every styled cell of the frame; the
\* k-th queue! may fail (k = 0: none fails)
Draw ==
    /\ pc = "draw"
    /\ \E failed \in {k > 0 : k \in 0..QueueCalls(snake, area, food)} :
         pc' = IF failed THEN "err_loop" ELSE "tick"
    /\ UNCHANGED <<cols, rows, area, snake, food, direction, status,
                   rawMode, cursorHidden, run>>

\* lines 220-225: which collision check, if any, breaks the loop
CollisionOf_afterPop(s, a, next_point) ==
    IF SnakeState_has_collision(pop(s), next_point) THEN "SelfCollision"
    ELSE IF GameArea_has_collision(a, next_point) THEN "WallCollision"
    ELSE "Running"

CollisionOf(s, a, next_point) ==
    IF SnakeState_has_collision(s, next_point) THEN "SelfCollision"
    ELSE IF GameArea_has_collision(a, next_point) THEN "WallCollision"
    ELSE "Running"

\* lines 220-225, 237: a break leaves the loop for screen.clear()
AfterTick_noBreak(st) == "flush"

AfterTick(st) == IF st = "Running" THEN "flush" ELSE "clear"

\* lines 226-235: the mutation of a tick without collision
GrowSnake(s, next_point) == push(s, next_point)

MoveSnake_noPop(s, next_point) == push(s, next_point)

MoveSnake(s, next_point) == pop(push(s, next_point))

Respawn(f, cell) == push(pop(f), cell)

\* lines 219-235
Tick ==
    /\ pc = "tick"
    /\ LET next_point == get_next_point(head_or(snake, area.from), direction)
           st == CollisionOf(snake, area, next_point)
       IN /\ status' = st
          /\ pc' = AfterTick(st)
          /\ IF st # "Running"
             THEN UNCHANGED <<snake, food, run>>
             ELSE IF FoodState_has_collision(food, next_point)
                  THEN /\ snake' = GrowSnake(snake, next_point)
                       /\ \E cell \in FoodCells(area) :
                            food' = Respawn(food, cell)
                       /\ run' = [head |-> head(snake'),
                                  len |-> Len(snake'.vec), n |-> 0,
                                  heading |-> direction,
                                  straight |-> run.straight + 1]
                  ELSE /\ snake' = MoveSnake(snake, next_point)
                       /\ UNCHANGED food
                       /\ run' = [run EXCEPT !.n = @ + 1,
                                             !.heading = direction,
                                             !.straight = @ + 1]
    /\ UNCHANGED <<cols, rows, area, direction, rawMode, cursorHidden>>

\* lines 237-238: queue!(MoveTo(cols, rows))?, flush()?
Flush ==
    /\ pc = "flush"
    /\ \E ok \in BOOLEAN : pc' = IF ok THEN "input" ELSE "err_loop"
    /\ UNCHANGED <<cols, rows, area, snake, food, direction, status,
                   rawMode, cursorHidden, run>>

KeyEvents == {"Up", "Down", "Left", "Right", "OtherKey"}

InputOutcomes == KeyEvents \cup {"timeout", "NotKey", "poll_err", "read_err"}

\* lines 242-248: the match on key.code
KeyDirection_upDownSwapped(ev, d) ==
    CASE ev = "Up"    -> "DOWN"
      [] ev = "Down"  -> "UP"
      [] ev = "Right" -> "RIGHT"
      [] ev = "Left"  -> "LEFT"
      [] OTHER        -> d

KeyDirection(ev, d) ==
    CASE ev = "Up"    -> "UP"
      [] ev = "Down"  -> "DOWN"
      [] ev = "Right" -> "RIGHT"
      [] ev = "Left"  -> "LEFT"
      [] OTHER        -> d

\* lines 240-251: poll(300ms)?, read()?, match, sleep
Input ==
    /\ pc = "input"
    /\ \E ev \in InputOutcomes :
         /\ direction' = KeyDirection(ev, direction)
         /\ pc' = IF ev \in {"poll_err", "read_err"} THEN "err_loop" ELSE "draw"
    /\ run' = IF direction' = direction
              THEN run
              ELSE [head |-> head(snake), len |-> Len(snake.vec), n |-> 0,
                    heading |-> run.heading, straight |-> 0]
    /\ UNCHANGED <<cols, rows, area, snake, food, status, rawMode, cursorHidden>>

\* lines 124-133 and 253-254: disable_raw_mode()?, queue!(Clear, Show, MoveTo)?
Clear ==
    /\ pc = "clear"
    /\ \E outcome \in {"ok", "raw_err", "queue_err"} :
         /\ rawMode' = (outcome = "raw_err")
         /\ cursorHidden' = (outcome # "ok")
         /\ pc' = IF outcome = "ok" THEN "returned_ok" ELSE "err_clear"
    /\ UNCHANGED <<cols, rows, area, snake, food, direction, status, run>>

Next ==
    \/ InitialFood
    \/ InitialFoodPanic
    \/ Setup
    \/ Draw
    \/ Tick
    \/ Flush
    \/ Input
    \/ Clear

Spec == Init /\ [][Next]_vars

\* ======================= properties =======================

Cells(lq) == {lq.vec[i] : i \in DOMAIN lq.vec}

NoDuplicates(lq) ==
    \A i, j \in DOMAIN lq.vec : lq.vec[i] = lq.vec[j] => i = j

SeedCell == <<area.from[1] + 1, area.from[2] + 1>>

\* the cell the next tick tries to enter
NextHead == get_next_point(head_or(snake, area.from), direction)

Interior(a, p) ==
    /\ a.from[1] < p[1] /\ p[1] < a.to[1]
    /\ a.from[2] < p[2] /\ p[2] < a.to[2]

OnOrOutsideWall(a, p) ==
    \/ p[1] <= a.from[1] \/ p[1] >= a.to[1]
    \/ p[2] <= a.from[2] \/ p[2] >= a.to[2]

\* a step that is a tick of the engine
TickStep == pc = "tick" /\ pc' # "tick"

\* a tick in which the head entered the Food cell
ConsumeStep == TickStep /\ status' = "Running" /\ NextHead \in food.hash

\* C1: at every tick boundary the Body's sequence has no duplicate cell, its
\* length equals the cardinality of the membership set, and the set holds
\* exactly the cells of the sequence.
C1_BodySeqMatchesSet ==
    /\ NoDuplicates(snake)
    /\ Len(snake.vec) = Cardinality(snake.hash)
    /\ snake.hash = Cells(snake)

\* the Body has grown twice and its seed cell has been popped
C1_Witness ==
    /\ pc = "flush"
    /\ Len(snake.vec) >= 3
    /\ SeedCell \notin snake.hash

\* C2: after every food spawn (the initial one and each respawn) the spawned
\* Food cell is not a member of the Body as it stands at that moment.
C2_SpawnedFoodOffBody ==
    [][((pc = "spawn" /\ pc' = "setup") \/ ConsumeStep)
         => head(food') \notin snake'.hash]_vars

\* C3: a tick without collision grows the Body by exactly 1 (head pushed,
\* tail kept) when the next head cell is a Food cell and keeps its length
\* (head pushed, tail popped) otherwise; no other step changes the length.
C3_GrowOrMove ==
    [][IF TickStep /\ status' = "Running"
       THEN IF NextHead \in food.hash
            THEN /\ Len(snake'.vec) = Len(snake.vec) + 1
                 /\ snake'.vec = <<NextHead>> \o snake.vec
            ELSE /\ Len(snake'.vec) = Len(snake.vec)
                 /\ snake'.vec = <<NextHead>> \o
                                   SubSeq(snake.vec, 1, Len(snake.vec) - 1)
       ELSE Len(snake'.vec) = Len(snake.vec)]_vars

\* the Body grew once and has since moved off its seed cell
C3_Witness ==
    /\ pc = "flush"
    /\ Len(snake.vec) = 2
    /\ SeedCell \notin snake.hash

\* C4: right after a tick in which the head consumes the Food cell c, the
\* Food set holds a new cell distinct from c and c is no longer in it.
C4_NewFoodDistinct ==
    [][ConsumeStep
         => /\ NextHead \notin food'.hash
            /\ \E f \in food'.hash : f # NextHead]_vars

\* C5: a tick whose next head cell is in the Body's set terminates with
\* self-collision and leaves the Body sequence, the Body set and the Food
\* unchanged.
C5_SelfCollisionFrame ==
    [][(TickStep /\ NextHead \in snake.hash)
         => /\ status' = "SelfCollision"
            /\ pc' = "clear"
            /\ snake' = snake
            /\ food' = food]_vars

\* the loop was left by the self-collision break with a Body of length >= 2
C5_Witness ==
    /\ status = "SelfCollision"
    /\ pc = "clear"
    /\ Len(snake.vec) >= 2
    /\ NextHead \in snake.hash

\* C6: a tick whose next head cell is not in the Body and is on or outside
\* the Area boundary terminates with wall collision; nothing is appended to
\* the Body, and Body and Food are unchanged.
C6_WallCollisionFrame ==
    [][(TickStep /\ NextHead \notin snake.hash /\ OnOrOutsideWall(area, NextHead))
         => /\ status' = "WallCollision"
            /\ pc' = "clear"
            /\ snake' = snake
            /\ food' = food]_vars

\* the loop was left by the wall break on the boundary column x == to.x
C6_Witness ==
    /\ status = "WallCollision"
    /\ pc = "clear"
    /\ NextHead[1] = area.to[1]
    /\ Interior(area, head(snake))

\* unit delta of a direction
Delta(d) ==
    CASE d = "RIGHT" -> <<1, 0>>
      [] d = "LEFT"  -> <<-1, 0>>
      [] d = "DOWN"  -> <<0, 1>>
      [] d = "UP"    -> <<0, -1>>

\* C7: after N ticks that stayed Running with one fixed direction d and no
\* food consumed, the Body length equals the length at the start of the
\* stretch and the head equals the starting head plus N times d's delta.
C7_StraightRun ==
    (status = "Running" /\ pc \in {"draw", "tick", "flush", "input"})
      => /\ Len(snake.vec) = run.len
         /\ head(snake) = <<run.head[1] + run.n * Delta(direction)[1],
                            run.head[2] + run.n * Delta(direction)[2]>>

\* a stretch of three ticks in one direction without food, with a Body
\* of length >= 2
C7_Witness ==
    /\ status = "Running"
    /\ pc = "flush"
    /\ run.n >= 3
    /\ run.len >= 2

\* C8: every Food cell lies strictly inside the Area's interior, for the
\* initial food and for every respawn.
C8_FoodInterior ==
    \A i \in DOMAIN food.vec :
       /\ Interior(area, food.vec[i])
       /\ ~GameArea_has_collision(area, food.vec[i])

\* C9: on every exit path after terminal setup has run (collision, or an
\* I/O failure of a draw, flush, poll or read inside the loop) raw mode is
\* disabled and the cursor is shown when control returns to the caller.
C9_TerminalRestoredOnExit ==
    pc \in {"returned_ok", "err_loop"} => (~rawMode /\ ~cursorHidden)

\* C10: Terminated is absorbing: after a collision no tick runs, no key is
\* polled, and Body, Food and Direction are never mutated again.
C10_TerminatedAbsorbing ==
    [][status # "Running"
         => /\ status' = status
            /\ snake' = snake
            /\ food' = food
            /\ direction' = direction
            /\ pc' \notin {"draw", "tick", "flush", "input"}]_vars

\* the session has returned after a collision ended the loop
C10_Witness ==
    /\ status # "Running"
    /\ pc = "returned_ok"

\* heading named by a directional key event
HeadingOfKey(ev) ==
    CASE ev = "Up"    -> "UP"
      [] ev = "Down"  -> "DOWN"
      [] ev = "Left"  -> "LEFT"
      [] ev = "Right" -> "RIGHT"

\* the Direction the input step must leave behind for each outcome
ExpectedDirection(ev, d) ==
    IF ev \in {"Up", "Down", "Left", "Right"} THEN HeadingOfKey(ev) ELSE d

\* C11: the input step at the end of a tick changes only Direction: an
\* Up/Down/Left/Right key sets Direction to that heading, any other key, a
\* non-key event or a timeout leaves it unchanged, and Body and Food are
\* unchanged by the input step.
C11_InputFrame ==
    [][pc = "input"
         => /\ snake' = snake
            /\ food' = food
            /\ \E ev \in InputOutcomes :
                 direction' = ExpectedDirection(ev, direction)
            /\ \A ev \in InputOutcomes :
                 KeyDirection(ev, direction) = ExpectedDirection(ev, direction)]_vars

\* an Up key turned a snake of length >= 2 that was heading right
C11_Witness ==
    /\ pc = "draw"
    /\ direction = "UP"
    /\ Len(snake.vec) >= 2
    /\ snake.vec[1][1] = snake.vec[2][1] + 1

\* ---- the construction of the Area on its own (lines 159-164) ----
SizeSamples ==
    (0..SmallSize) \cup {U16Max \div 3, (U16Max \div 3) + 1, U16Max}

AreaInit ==
    /\ cols \in SizeSamples
    /\ rows \in SizeSamples
    /\ area = [from |-> <<0, 0>>, to |-> <<0, 0>>]
    /\ snake = NoQueue
    /\ food = NoQueue
    /\ direction = "DOWN"
    /\ pc = "size"
    /\ status = "Running"
    /\ rawMode = FALSE
    /\ cursorHidden = FALSE
    /\ run = [head |-> <<0, 0>>, len |-> 0, n |-> 0,
              heading |-> "NONE", straight |-> 0]

\* lines 161-164 when no overflow check fires
BuildArea ==
    /\ pc = "size"
    /\ area' = GameArea_new(cols, rows)
    /\ pc' = "area"
    /\ UNCHANGED <<cols, rows, snake, food, direction, status, rawMode,
                   cursorHidden, run>>

\* lines 163: 3 * cols or 3 * rows overflows in a build with overflow checks
BuildAreaOverflow ==
    /\ pc = "size"
    /\ (MulOverflows(3, cols) \/ MulOverflows(3, rows))
    /\ pc' = "panicked"
    /\ UNCHANGED <<cols, rows, area, snake, food, direction, status, rawMode,
                   cursorHidden, run>>

AreaNext == BuildArea \/ BuildAreaOverflow

AreaSpec == AreaInit /\ [][AreaNext]_vars

\* C12: for every terminal size of 16-bit unsigned integers the Area built
\* at startup has from.x < to.x and from.y < to.y, and 3*cols and 3*rows are
\* computed without overflowing 16 bits.
C12_AreaWellFormed ==
    pc # "size"
      => /\ ~MulOverflows(3, cols) /\ ~MulOverflows(3, rows)
         /\ pc = "area"
         /\ area.from[1] < area.to[1]
         /\ area.from[2] < area.to[2]

TailCell(lq) == lq.vec[Len(lq.vec)]

\* C13: the self-collision check of a tick sees the Body before the tick's
\* mutation, tail included: a next head cell equal to the current tail of a
\* Body of length >= 2 terminates the tick with self-collision, also when
\* the step would have been a plain move that vacates the tail cell.
C13_TailIsHazard ==
    [][(TickStep /\ Len(snake.vec) >= 2 /\ NextHead = TailCell(snake))
         => /\ status' = "SelfCollision"
            /\ pc' = "clear"
            /\ snake' = snake]_vars

\* a Body of length >= 4 ran into its own tail on a cell without food
C13_Witness ==
    /\ status = "SelfCollision"
    /\ pc = "clear"
    /\ Len(snake.vec) >= 4
    /\ NextHead = TailCell(snake)
    /\ NextHead \notin food.hash

Opposite(d) ==
    CASE d = "UP"    -> "DOWN"
      [] d = "DOWN"  -> "UP"
      [] d = "LEFT"  -> "RIGHT"
      [] d = "RIGHT" -> "LEFT"
      [] OTHER       -> "NONE"

\* C14: with a Body of length >= 2, a tick whose Direction is the exact
\* opposite of the heading the previous tick used terminates with
\* self-collision (the next head cell is the second body segment) and leaves
\* the Body unchanged; with a Body of length 1 no tick ends in
\* self-collision.
C14_ReversalKills ==
    [][TickStep
         => /\ (Len(snake.vec) >= 2 /\ direction = Opposite(run.heading))
                 => /\ NextHead = snake.vec[2]
                    /\ status' = "SelfCollision"
                    /\ snake' = snake
            /\ Len(snake.vec) >= 2 => run.heading \in Directions
            /\ Len(snake.vec) = 1 => status' # "SelfCollision"]_vars

\* a Body of length >= 3 was reversed and the tick after ended the game
C14_Witness ==
    /\ status = "SelfCollision"
    /\ pc = "clear"
    /\ Len(snake.vec) >= 3
    /\ direction = Opposite(run.heading)
    /\ NextHead = snake.vec[2]

\* the cells of the Area's strict interior
InteriorCells(a) ==
    {p \in ((a.from[1] + 1)..(a.to[1] - 1)) \X ((a.from[2] + 1)..(a.to[2] - 1)) :
       Interior(a, p)}

\* C15: food spawn can return every cell of the Area's strict interior
\* (from.x+1 <= x <= to.x-1, from.y+1 <= y <= to.y-1), the cells with
\* x = to.x-1 or y = to.y-1 included, and it produces a cell whenever the
\* interior is non-empty.
C15_SpawnCoversInterior ==
    /\ pc \notin {"spawn", "panicked"}
         => InteriorCells(area) \subseteq (FoodRangeX(area) \X FoodRangeY(area))
    /\ pc = "panicked" => InteriorCells(area) = {}

LoopPcs == {"draw", "tick", "flush", "input"}

CellsOf(seq) == {seq[i] : i \in DOMAIN seq}

\* C16: in every reachable state the three groups of the render projection
\* target pairwise distinct cells: no Body cell is a wall cell, no Food cell
\* is a wall cell, and no Food cell is a Body cell.
C16_RenderGroupsDisjoint ==
    pc \in LoopPcs
      => LET body == {e.cell : e \in CellsOf(RenderSnake(snake))}
             wall == {e.cell : e \in CellsOf(RenderArea(area))}
             eats == {e.cell : e \in CellsOf(RenderFood(food))}
         IN /\ body \cap wall = {}
            /\ eats \cap wall = {}
            /\ eats \cap body = {}

\* C17: in the render projection exactly one Body cell receives the head
\* style and it is the Body's head (element 0 of the sequence); every other
\* Body cell receives the body style, each Body cell is drawn once, and
\* rendering does not mutate the Body.
C17_HeadStyled ==
    [][pc = "draw"
         => LET r == RenderSnake(snake)
            IN /\ Cardinality({i \in DOMAIN r : r[i].style = "head"}) = 1
               /\ \A i \in DOMAIN r :
                    /\ r[i].style = "head" <=> r[i].cell = snake.vec[1]
                    /\ r[i].style \in {"head", "body"}
               /\ Len(r) = Len(snake.vec)
               /\ {r[i].cell : i \in DOMAIN r} = CellsOf(snake.vec)
               /\ snake' = snake]_vars

\* a frame of a Body of length >= 3 has been drawn
C17_Witness ==
    /\ pc = "tick"
    /\ Len(snake.vec) >= 3
    /\ RenderSnake(snake)[Len(snake.vec)].style = "head"

\* the perimeter of the rectangle, corners included
Perimeter(a) ==
    {p \in (a.from[1]..a.to[1]) \X (a.from[2]..a.to[2]) :
       \/ p[1] \in {a.from[1], a.to[1]}
       \/ p[2] \in {a.from[2], a.to[2]}}

\* C18: for every Area with from.x < to.x and from.y < to.y the cells of the
\* wall cell list are exactly the rectangle's perimeter, corners included,
\* and Area.has_collision is true for every one of them.
C18_WallIsPerimeter ==
    (pc \in {"spawn", "setup"} /\ area.from[1] < area.to[1] /\ area.from[2] < area.to[2])
      => /\ CellsOf(GameArea_into(area)) = Perimeter(area)
         /\ \A p \in CellsOf(GameArea_into(area)) : GameArea_has_collision(area, p)

\* the wall cell list of an Area with a 3 x 4 interior has been built
C18_Witness ==
    /\ pc = "setup"
    /\ area.to[1] - area.from[1] = 4
    /\ area.to[2] - area.from[2] = 5
    /\ <<area.to[1], area.to[2]>> \in CellsOf(GameArea_into(area))

\* C19: once the game loop has started the Body is non-empty and every Body
\* cell lies strictly inside the Area; hence the head's coordinates are never
\* 0 or 65535, the saturating step never saturates, the next head cell
\* differs from the head, and a Body of length 1 only terminates by wall
\* collision.
C19_BodyInsideArea ==
    pc \in LoopPcs \cup {"clear", "returned_ok", "err_loop", "err_clear"}
      => /\ Len(snake.vec) >= 1
         /\ \A i \in DOMAIN snake.vec :
              /\ Interior(area, snake.vec[i])
              /\ ~GameArea_has_collision(area, snake.vec[i])
         /\ head(snake)[1] \notin {0, U16Max}
         /\ head(snake)[2] \notin {0, U16Max}
         /\ NextHead = <<head(snake)[1] + Delta(direction)[1],
                         head(snake)[2] + Delta(direction)[2]>>
         /\ NextHead # head(snake)
         /\ (Len(snake.vec) = 1 /\ status # "Running") => status = "WallCollision"

MaxOf(a, b) == IF a >= b THEN a ELSE b

\* the claimed bound on the ticks under one direction
TickBound(a) == MaxOf(a.to[1] - a.from[1], a.to[2] - a.from[2])

\* C20: under a Direction that no longer changes the engine reaches
\* Terminated within at most max(to.x - from.x, to.y - from.y) ticks,
\* whatever the food placements are: the number of ticks completed without
\* collision since the Direction last changed stays below that bound.
C20_StraightRunEnds ==
    (pc \in LoopPcs /\ status = "Running") => run.straight + 1 <= TickBound(area)

====
